---- MODULE Spec2Model ----
(***************************************************************************)
(* Email synchronisation and threading engine of the mail campaign         *)
(* manager: DatabaseStorage.syncReceivedEmail / syncSentEmail /            *)
(* createOrUpdateThread / refreshThread*Count (server/storage.ts) driven   *)
(* by the manual POST /api/emails/sync route and the setInterval auto-sync *)
(* (server/routes.ts).  Every awaited database statement is one step, so   *)
(* that two passes interleave exactly where the code awaits.               *)
(*                                                                         *)
(* Columns that no statement of the engine reads back (subject, body,      *)
(* names, updatedAt, createdAt) are left out of the rows.                  *)
(***************************************************************************)
EXTENDS Integers, Sequences, FiniteSets, TLC

\* ------------------------------------------------------------------ bounds
MaxCalls == 2
MaxRaceCalls == 3
MaxSeqCalls == 2
MaxTime == 2
MaxBatchCalls == 3
MaxApiCalls == 2
MaxEdgeCalls == 2
MaxQueryCalls == 3
MaxCountCalls == 2
MaxOrderCalls == 2
MaxMergeCalls == 3
MaxTimerCalls == 2
MaxTokens == 2
MaxTemplates == 1
MaxSends == 1
MaxRequests == 2
MaxNow == 3

\* ----------------------------------------------------------- input domains
Procs == {"timer", "manual"}
NULL == "NULL"
MessageIds == {"m1", "m2"}
ConversationIds == {"c1", "c2"}
Addresses == {"a@x.com", "b@x.com"}
Times == 1..MaxTime
LeadStatus == {"hot", "cold", "dead", "unassigned"}
\* the statuses a user sets while passes run
StatusInputs == {"hot", "unassigned"}

\* raw provider message as the routes hand it to syncReceivedEmail
ReceivedInputs ==
  [kind : {"received"}, messageId : MessageIds, conversationId : ConversationIds,
   addr : Addresses, isRead : BOOLEAN, leadStatus : {NULL}, at : Times]

\* raw provider message as the routes hand it to syncSentEmail
SentInputs ==
  [kind : {"sent"}, messageId : MessageIds, conversationId : ConversationIds,
   addr : Addresses, isRead : {FALSE}, leadStatus : {NULL}, at : Times]

\* the inputs of overlapping passes whose calls differ in the message only
ThreadInputs ==
  [kind : {"received", "sent"}, messageId : MessageIds, conversationId : {"c1"},
   addr : {"a@x.com"}, isRead : {FALSE}, leadStatus : {NULL}, at : {1}]

\* the inputs of the overlapping passes: messages of one conversation
RaceInputs ==
  [kind : {"received", "sent"}, messageId : MessageIds, conversationId : {"c1"},
   addr : {"a@x.com"}, isRead : {FALSE}, leadStatus : {NULL}, at : Times]

\* two inbox messages of one conversation, for passes that share a batch
BatchInputs ==
  [kind : {"received"}, messageId : MessageIds, conversationId : {"c1"},
   addr : {"a@x.com"}, isRead : {FALSE}, leadStatus : {NULL}, at : {1}]

\* one inbox message and one sent message, for the requests to address
ApiInputs ==
  [kind : {"received", "sent"}, messageId : {"m1"}, conversationId : {"c1"},
   addr : {"a@x.com"}, isRead : {FALSE}, leadStatus : {NULL}, at : {1}]

\* req.body.leadStatus of a PATCH request
RequestStatuses == {"hot", "urgent"}

\* arguments the sync functions accept beyond what a provider message fills
\* in: an absent or empty messageId, an absent conversationId, a lead status
EdgeInputs ==
  [kind : {"received"}, messageId : {NULL, "", "m1"}, conversationId : {NULL, "c1"},
   addr : {"a@x.com"}, isRead : {FALSE}, leadStatus : {NULL}, at : {1}]
  \cup
  [kind : {"sent"}, messageId : {NULL, "", "m1"}, conversationId : {NULL, "c1"},
   addr : {"a@x.com"}, isRead : {FALSE}, leadStatus : {NULL, "hot"}, at : {1}]

\* an earlier and a later timestamp
QueryTimes == {1, 2}

\* one message id synced as inbox or sent message, with or without a
\* conversation, at two times, for the thread view to select and order
QueryInputs ==
  [kind : {"received", "sent"}, messageId : {"m1"}, conversationId : {NULL, "", "c1"},
   addr : {"a@x.com"}, isRead : {FALSE}, leadStatus : {NULL}, at : QueryTimes]

\* inbox messages of one conversation from three senders
MergeInputs ==
  [kind : {"received"}, messageId : MessageIds, conversationId : {"c1"},
   addr : {"a@x.com", "b@x.com", "c@x.com"}, isRead : {FALSE}, leadStatus : {NULL},
   at : {1}]

\* the messages of one conversation as a pass may fetch them, an inbox
\* message read or unread
OrderInputs ==
  [kind : {"received"}, messageId : MessageIds, conversationId : {"c1"},
   addr : {"a@x.com"}, isRead : BOOLEAN, leadStatus : {NULL}, at : {1}]
  \cup
  [kind : {"sent"}, messageId : MessageIds, conversationId : {"c1"},
   addr : {"a@x.com"}, isRead : {FALSE}, leadStatus : {NULL}, at : {1}]

VARIABLES
  receivedEmails,  \* table received_emails: sequence of rows, row id = index
  sentEmails,      \* table sent_emails
  emailThreads,    \* table email_threads
  activityLogs,    \* table activity_logs
  response,        \* the answer of the last PATCH request
  emailTemplates,  \* table email_templates
  outbox,          \* the last message posted to /me/sendMail
  tokenCache,      \* outlookClient.ts: the cached provider token
  now,             \* Date.now()
  tokenCall,       \* per caller of getAccessToken: position and returned token
  proc,            \* per sync pass: position and locals of the running call
  calls            \* number of sync calls started so far

vars == <<receivedEmails, sentEmails, emailThreads, activityLogs, response,
          emailTemplates, outbox, tokenCache, now, tokenCall, proc, calls>>

\* ------------------------------------------------------------ pure helpers
\* the optional string passed on as it came
OrEmpty_Identity(x) == x

\* JS `x || ''` on an optional string
OrEmpty(x) == IF x = NULL THEN "" ELSE x

\* JS `email.leadStatus || 'unassigned'`
OrUnassigned(x) == IF x = NULL THEN "unassigned" ELSE x

Indices(table) == 1..Len(table)

RECURSIVE Dedup(_)
\* Array.from(new Set(list)): first occurrences, in order
Dedup(list) ==
  IF list = <<>> THEN <<>>
  ELSE LET init == Dedup(SubSeq(list, 1, Len(list) - 1))
           last == list[Len(list)]
       IN IF \E i \in 1..Len(init) : init[i] = last THEN init ELSE Append(init, last)

\* rows of a message table selected by eq(table.messageId, id)
MatchingMessages(table, id) == {i \in Indices(table) : table[i].messageId = id}

\* rows of email_threads selected by eq(emailThreads.conversationId, conv)
MatchingThreads(conv) == {t \in Indices(emailThreads) : emailThreads[t].conversationId = conv}

\* unique() on sent_emails.message_id / received_emails.message_id: NULLs never collide
MessageIdTaken(table, id) == id # NULL /\ MatchingMessages(table, id) # {}

\* email_threads without the unique constraint
ConversationIdTaken_NoConstraint(conv) == FALSE

\* unique constraint on email_threads.conversation_id
ConversationIdTaken(conv) == MatchingThreads(conv) # {}

\* a candidate that asks the merge for a speculative unread increment
ThreadCandidate_Incrementing(email) ==
  [conversationId    |-> OrEmpty(email.conversationId),
   participantEmails |-> <<email.addr>>,
   leadStatus        |-> IF email.kind = "sent" THEN OrUnassigned(email.leadStatus)
                         ELSE "unassigned",
   lastMessageAt     |-> email.at,
   unreadCount       |-> IF email.kind = "received" /\ ~email.isRead THEN 1 ELSE 0]

\* the candidate both branches of syncReceivedEmail / syncSentEmail build
ThreadCandidate(email) ==
  [conversationId    |-> OrEmpty(email.conversationId),
   participantEmails |-> <<email.addr>>,
   leadStatus        |-> IF email.kind = "sent" THEN OrUnassigned(email.leadStatus)
                         ELSE "unassigned",
   lastMessageAt     |-> email.at,
   unreadCount       |-> 0]

\* a merge that takes the candidate's timestamp whatever the stored one is
shouldUpdateTime_Always(candidate, existing) == TRUE

shouldUpdateTime(candidate, existing) == candidate.lastMessageAt > existing.lastMessageAt

\* a merge that also writes the candidate's lead status
MergedThread_WithLeadStatus(stored, existing, candidate) ==
  [stored EXCEPT
     !.leadStatus = candidate.leadStatus,
     !.lastMessageAt = IF shouldUpdateTime(candidate, existing)
                       THEN candidate.lastMessageAt ELSE existing.lastMessageAt,
     !.unreadCount = IF candidate.unreadCount > 0
                     THEN existing.unreadCount + candidate.unreadCount
                     ELSE existing.unreadCount,
     !.participantEmails = Dedup(existing.participantEmails \o candidate.participantEmails)]

\* a merge that replaces the participants by the candidate's
MergedThread_ReplacingParticipants(stored, existing, candidate) ==
  [stored EXCEPT
     !.lastMessageAt = IF shouldUpdateTime(candidate, existing)
                       THEN candidate.lastMessageAt ELSE existing.lastMessageAt,
     !.unreadCount = IF candidate.unreadCount > 0
                     THEN existing.unreadCount + candidate.unreadCount
                     ELSE existing.unreadCount,
     !.participantEmails = candidate.participantEmails]

\* the .set({...}) of the merge branch, computed from the row read earlier
MergedThread(stored, existing, candidate) ==
  [stored EXCEPT
     !.lastMessageAt = IF shouldUpdateTime(candidate, existing)
                       THEN candidate.lastMessageAt ELSE existing.lastMessageAt,
     !.unreadCount = IF candidate.unreadCount > 0
                     THEN existing.unreadCount + candidate.unreadCount
                     ELSE existing.unreadCount,
     !.participantEmails = Dedup(existing.participantEmails \o candidate.participantEmails)]

\* the .values({...thread, messageCount: 0}) of the insert branch
NewThread(candidate) ==
  [conversationId    |-> candidate.conversationId,
   participantEmails |-> candidate.participantEmails,
   leadStatus        |-> candidate.leadStatus,
   messageCount      |-> 0,
   unreadCount       |-> candidate.unreadCount,
   lastMessageAt     |-> candidate.lastMessageAt]

\* the row written by .values({...email, threadId}) / .set({...email, threadId})
ReceivedRow(email, threadId) ==
  [messageId |-> email.messageId, conversationId |-> email.conversationId,
   addr |-> email.addr, isRead |-> email.isRead, at |-> email.at, threadId |-> threadId]

SentRow(email, threadId) ==
  [messageId |-> email.messageId, conversationId |-> email.conversationId,
   addr |-> email.addr, leadStatus |-> OrUnassigned(email.leadStatus),
   at |-> email.at, threadId |-> threadId]

\* .set({...email}) leaves a column alone when the key is undefined
Keep(stored, value) == IF value = NULL THEN stored ELSE value

\* the row after .set({...email, threadId}) on a stored row
UpdatedReceivedRow(stored, email, threadId) ==
  [messageId |-> Keep(stored.messageId, email.messageId),
   conversationId |-> Keep(stored.conversationId, email.conversationId),
   addr |-> email.addr, isRead |-> email.isRead, at |-> email.at, threadId |-> threadId]

UpdatedSentRow(stored, email, threadId) ==
  [messageId |-> Keep(stored.messageId, email.messageId),
   conversationId |-> Keep(stored.conversationId, email.conversationId),
   addr |-> email.addr, leadStatus |-> Keep(stored.leadStatus, email.leadStatus),
   at |-> email.at, threadId |-> threadId]

\* a count over the whole table
CountSent_AllThreads(threadId) == Len(sentEmails)

CountSent(threadId) == Cardinality({i \in Indices(sentEmails) : sentEmails[i].threadId = threadId})

CountReceived(threadId) ==
  Cardinality({i \in Indices(receivedEmails) : receivedEmails[i].threadId = threadId})

CountUnread(threadId) ==
  Cardinality({i \in Indices(receivedEmails) :
                 receivedEmails[i].threadId = threadId /\ receivedEmails[i].isRead = FALSE})

\* ------------------------------------------------------------ process state
NoEmail == [kind |-> "none"]
\* no request answered yet
NoResponse == [status |-> 0]
\* nothing posted to the provider yet
NoMessage == [templateId |-> 0]
\* let tokenCache: TokenCache | null = null
NoTokenCache == [accessToken |-> NULL, expiresAt |-> 0]
\* the two fetchEmails of a pass each build a client, so each calls getAccessToken
Callers == {"inbox", "sentitems"}
\* a caller that is not inside getAccessToken
NoTokenCall == [pc |-> "idle", returned |-> NULL, error |-> FALSE,
                fromCache |-> FALSE, expiresIn |-> 0]
NoThread == [id |-> 0]

\* setInterval calls its callback at every tick, whether or not the callback
\* of an earlier tick has returned: "nextTick" is the callback of a later tick
Timers == {"timer", "nextTick"}
Callbacks == Procs \cup Timers

Idle == [pc |-> "idle", email |-> NoEmail, existing |-> 0, found |-> NoThread,
         threadId |-> 0, sentCount |-> 0, receivedCount |-> 0, unread |-> 0,
         synced |-> 0, inboxLength |-> 0, sentLength |-> 0, error |-> "none"]

\* between two messages of a pass
InLoop(phase) == [Idle EXCEPT !.pc = phase]

InCall(p) == proc[p].pc \notin {"idle", "inbox", "sent"}

Table(kind) == IF kind = "sent" THEN sentEmails ELSE receivedEmails

Init ==
  /\ receivedEmails = <<>>
  /\ sentEmails = <<>>
  /\ emailThreads = <<>>
  /\ activityLogs = <<>>
  /\ response = NoResponse
  /\ emailTemplates = <<>>
  /\ outbox = NoMessage
  /\ tokenCache = NoTokenCache
  /\ now = 0
  /\ tokenCall = [c \in Callers |-> NoTokenCall]
  /\ proc = [p \in Callbacks |-> Idle]
  /\ calls = 0

\* an awaited statement rejected: the exception reaches the pass's catch block,
\* which ends the pass; `error` names the statement that was rejected and
\* `synced` stays at the number of messages the pass had synced
Abort(p, error) == [Idle EXCEPT !.error = error, !.synced = proc[p].synced]

\* ------------------------------------------------------------------ passes
\* the route handler / timer callback starts and both fetchEmails succeed
StartPass(p) ==
  /\ proc[p].pc = "idle"
  /\ proc' = [proc EXCEPT ![p] = InLoop("inbox")]
  /\ UNCHANGED <<receivedEmails, sentEmails, emailThreads, calls, activityLogs, response,
                 emailTemplates, outbox, tokenCache, now, tokenCall>>

\* the sent folder fetched only after the inbox loop has run
FetchFails_AfterInbox(p) ==
  /\ proc[p].pc \in {"idle", "sent"}
  /\ proc' = [proc EXCEPT ![p] = [Idle EXCEPT !.error = "fetch"]]
  /\ UNCHANGED <<receivedEmails, sentEmails, emailThreads, calls, activityLogs, response,
                 emailTemplates, outbox, tokenCache, now, tokenCall>>

\* a fetchEmails rejects: the catch block ends the pass before any sync call
FetchFails(p) ==
  /\ proc[p].pc = "idle"
  /\ proc' = [proc EXCEPT ![p] = [Idle EXCEPT !.error = "fetch"]]
  /\ UNCHANGED <<receivedEmails, sentEmails, emailThreads, calls, activityLogs, response,
                 emailTemplates, outbox, tokenCache, now, tokenCall>>

\* the inbox loop is exhausted, the sent loop starts
InboxDone(p) ==
  /\ proc[p].pc = "inbox"
  /\ proc' = [proc EXCEPT ![p] = [@ EXCEPT !.pc = "sent", !.inboxLength = proc[p].synced]]
  /\ UNCHANGED <<receivedEmails, sentEmails, emailThreads, calls, activityLogs, response,
                 emailTemplates, outbox, tokenCache, now, tokenCall>>

\* the sent loop is exhausted, the pass ends normally: the manual route answers
\* inboxCount = inboxLength and sentCount = sentLength, the timer logs their sum
EndPass(p) ==
  /\ proc[p].pc = "sent"
  /\ proc' = [proc EXCEPT ![p] = [Idle EXCEPT !.synced = proc[p].synced,
                                             !.inboxLength = proc[p].inboxLength,
                                             !.sentLength = proc[p].sentLength]]
  /\ UNCHANGED <<receivedEmails, sentEmails, emailThreads, calls, activityLogs, response,
                 emailTemplates, outbox, tokenCache, now, tokenCall>>


\* the call returned: back to the loop it was called from
Return(p) ==
  [InLoop(IF proc[p].email.kind = "sent" THEN "sent" ELSE "inbox")
     EXCEPT !.synced = proc[p].synced + 1,
            !.inboxLength = proc[p].inboxLength,
            !.sentLength = proc[p].sentLength + (IF proc[p].email.kind = "sent" THEN 1 ELSE 0)]

\* a sent-folder message without toRecipients: the loop body does nothing
SkipSent(p, maxCalls) ==
  /\ proc[p].pc = "sent"
  /\ calls < maxCalls
  /\ calls' = calls + 1
  /\ proc' = [proc EXCEPT ![p] = [@ EXCEPT !.sentLength = @ + 1]]
  /\ UNCHANGED <<receivedEmails, sentEmails, emailThreads, activityLogs, response,
                 emailTemplates, outbox, tokenCache, now, tokenCall>>

\* res.json({ inboxCount: filteredInboxMessages.length,
\*            sentCount: filteredSentMessages.length }) of a pass that ended
SyncResponse(p) ==
  [inboxCount |-> proc[p].inboxLength, sentCount |-> proc[p].sentLength]

\* ------------------------------------------- syncReceivedEmail / syncSentEmail
\* the call and its first statement: select the stored message by messageId || ''
SelectExisting(p, email, maxCalls) ==
  /\ proc[p].pc = (IF email.kind = "sent" THEN "sent" ELSE "inbox")
  /\ calls < maxCalls
  /\ calls' = calls + 1
  /\ LET hits == MatchingMessages(Table(email.kind), OrEmpty(email.messageId))
     IN \E e \in (IF hits = {} THEN {0} ELSE hits) :
          proc' = [proc EXCEPT ![p] = [@ EXCEPT !.pc = "thread_select",
                                                !.email = email, !.existing = e]]
  /\ UNCHANGED <<receivedEmails, sentEmails, emailThreads, activityLogs, response,
                 emailTemplates, outbox, tokenCache, now, tokenCall>>

\* createOrUpdateThread, first statement: select the thread by conversationId
ThreadSelect(p) ==
  /\ proc[p].pc = "thread_select"
  /\ LET hits == MatchingThreads(ThreadCandidate(proc[p].email).conversationId)
     IN \E t \in (IF hits = {} THEN {0} ELSE hits) :
          proc' = [proc EXCEPT ![p] =
                     [@ EXCEPT !.pc = "thread_write",
                               !.found = IF t = 0 THEN NoThread
                                         ELSE [id |-> t, row |-> emailThreads[t]]]]
  /\ UNCHANGED <<receivedEmails, sentEmails, emailThreads, calls, activityLogs, response,
                 emailTemplates, outbox, tokenCache, now, tokenCall>>

\* createOrUpdateThread, merge branch: update the thread that was read
ThreadUpdate(p) ==
  /\ proc[p].pc = "thread_write"
  /\ proc[p].found.id # 0
  /\ LET t == proc[p].found.id
     IN /\ emailThreads' = [emailThreads EXCEPT
                              ![t] = MergedThread(@, proc[p].found.row,
                                                  ThreadCandidate(proc[p].email))]
        /\ proc' = [proc EXCEPT ![p] = [@ EXCEPT !.pc = "message_write",
                                                 !.threadId = t]]
  /\ UNCHANGED <<receivedEmails, sentEmails, calls, activityLogs, response,
                 emailTemplates, outbox, tokenCache, now, tokenCall>>

\* createOrUpdateThread, insert branch
ThreadInsert(p) ==
  /\ proc[p].pc = "thread_write"
  /\ proc[p].found.id = 0
  /\ ~ConversationIdTaken(ThreadCandidate(proc[p].email).conversationId)
  /\ emailThreads' = Append(emailThreads, NewThread(ThreadCandidate(proc[p].email)))
  /\ proc' = [proc EXCEPT ![p] = [@ EXCEPT !.pc = "message_write",
                                           !.threadId = Len(emailThreads) + 1]]
  /\ UNCHANGED <<receivedEmails, sentEmails, calls, activityLogs, response,
                 emailTemplates, outbox, tokenCache, now, tokenCall>>

\* createOrUpdateThread, insert branch rejected by the unique constraint
ThreadInsertFails(p) ==
  /\ proc[p].pc = "thread_write"
  /\ proc[p].found.id = 0
  /\ ConversationIdTaken(ThreadCandidate(proc[p].email).conversationId)
  /\ proc' = [proc EXCEPT ![p] = Abort(p, "conversation_id")]
  /\ UNCHANGED <<receivedEmails, sentEmails, emailThreads, calls, activityLogs, response,
                 emailTemplates, outbox, tokenCache, now, tokenCall>>

\* existing-message path: update the stored row in place and return
MessageUpdate(p) ==
  /\ proc[p].pc = "message_write"
  /\ proc[p].existing # 0
  /\ LET e == proc[p].existing
         email == proc[p].email
     IN IF email.kind = "sent"
        THEN /\ sentEmails' = [sentEmails EXCEPT
                                 ![e] = UpdatedSentRow(@, email, proc[p].threadId)]
             /\ UNCHANGED receivedEmails
        ELSE /\ receivedEmails' = [receivedEmails EXCEPT
                                     ![e] = UpdatedReceivedRow(@, email, proc[p].threadId)]
             /\ UNCHANGED sentEmails
  /\ proc' = [proc EXCEPT ![p] = Return(p)]
  /\ UNCHANGED <<emailThreads, calls, activityLogs, response,
                 emailTemplates, outbox, tokenCache, now, tokenCall>>

\* new-message path: insert the row
MessageInsert(p) ==
  /\ proc[p].pc = "message_write"
  /\ proc[p].existing = 0
  /\ ~MessageIdTaken(Table(proc[p].email.kind), proc[p].email.messageId)
  /\ LET email == proc[p].email
     IN IF email.kind = "sent"
        THEN /\ sentEmails' = Append(sentEmails, SentRow(email, proc[p].threadId))
             /\ UNCHANGED receivedEmails
        ELSE /\ receivedEmails' = Append(receivedEmails, ReceivedRow(email, proc[p].threadId))
             /\ UNCHANGED sentEmails
  /\ proc' = [proc EXCEPT ![p] = [@ EXCEPT !.pc = "count_sent"]]
  /\ UNCHANGED <<emailThreads, calls, activityLogs, response,
                 emailTemplates, outbox, tokenCache, now, tokenCall>>

\* the pass wrapped in a transaction: the rejected insert rolls its rows back
MessageInsertFails_RollingBack(p) ==
  /\ proc[p].pc = "message_write"
  /\ proc[p].existing = 0
  /\ MessageIdTaken(Table(proc[p].email.kind), proc[p].email.messageId)
  /\ proc' = [proc EXCEPT ![p] = Abort(p, "message_id")]
  /\ receivedEmails' = SubSeq(receivedEmails, 1, Len(receivedEmails) - 1)
  /\ sentEmails' = <<>>
  /\ UNCHANGED <<emailThreads, calls, activityLogs, response,
                 emailTemplates, outbox, tokenCache, now, tokenCall>>

\* new-message path: the insert is rejected by unique(message_id)
MessageInsertFails(p) ==
  /\ proc[p].pc = "message_write"
  /\ proc[p].existing = 0
  /\ MessageIdTaken(Table(proc[p].email.kind), proc[p].email.messageId)
  /\ proc' = [proc EXCEPT ![p] = Abort(p, "message_id")]
  /\ UNCHANGED <<receivedEmails, sentEmails, emailThreads, calls, activityLogs, response,
                 emailTemplates, outbox, tokenCache, now, tokenCall>>

\* ------------------------------------------------ refreshThreadMessageCount
SelectSentCount(p) ==
  /\ proc[p].pc = "count_sent"
  /\ proc' = [proc EXCEPT ![p] = [@ EXCEPT !.pc = "count_received",
                                           !.sentCount = CountSent(proc[p].threadId)]]
  /\ UNCHANGED <<receivedEmails, sentEmails, emailThreads, calls, activityLogs, response,
                 emailTemplates, outbox, tokenCache, now, tokenCall>>

SelectReceivedCount(p) ==
  /\ proc[p].pc = "count_received"
  /\ proc' = [proc EXCEPT ![p] = [@ EXCEPT !.pc = "count_write",
                                           !.receivedCount = CountReceived(proc[p].threadId)]]
  /\ UNCHANGED <<receivedEmails, sentEmails, emailThreads, calls, activityLogs, response,
                 emailTemplates, outbox, tokenCache, now, tokenCall>>

UpdateMessageCount(p) ==
  /\ proc[p].pc = "count_write"
  /\ emailThreads' = [emailThreads EXCEPT
                        ![proc[p].threadId].messageCount =
                           proc[p].sentCount + proc[p].receivedCount]
  /\ proc' = [proc EXCEPT ![p] = [@ EXCEPT !.pc = "unread_select",
                                           !.sentCount = 0, !.receivedCount = 0]]
  /\ UNCHANGED <<receivedEmails, sentEmails, calls, activityLogs, response,
                 emailTemplates, outbox, tokenCache, now, tokenCall>>

\* ------------------------------------------------- refreshThreadUnreadCount
SelectUnreadCount(p) ==
  /\ proc[p].pc = "unread_select"
  /\ proc' = [proc EXCEPT ![p] = [@ EXCEPT !.pc = "unread_write",
                                           !.unread = CountUnread(proc[p].threadId)]]
  /\ UNCHANGED <<receivedEmails, sentEmails, emailThreads, calls, activityLogs, response,
                 emailTemplates, outbox, tokenCache, now, tokenCall>>

UpdateUnreadCount(p) ==
  /\ proc[p].pc = "unread_write"
  /\ emailThreads' = [emailThreads EXCEPT ![proc[p].threadId].unreadCount = proc[p].unread]
  /\ proc' = [proc EXCEPT ![p] = Return(p)]
  /\ UNCHANGED <<receivedEmails, sentEmails, calls, activityLogs, response,
                 emailTemplates, outbox, tokenCache, now, tokenCall>>

\* -------------------------------------------------------- updateThreadStatus
\* PATCH /api/email-threads/:threadId/status with a valid status
updateThreadStatus(threadId, leadStatus) ==
  /\ emailThreads' = [t \in Indices(emailThreads) |->
                        IF t = threadId THEN [emailThreads[t] EXCEPT !.leadStatus = leadStatus]
                        ELSE emailThreads[t]]
  /\ UNCHANGED <<receivedEmails, sentEmails, proc, calls,
                 emailTemplates, outbox, tokenCache, now, tokenCall>>

\* ------------------------------------------------------------- PATCH routes
\* a validation that lets every status through
ValidLeadStatus_Any(leadStatus) == TRUE

\* ['hot', 'cold', 'dead', 'unassigned'].includes(leadStatus)
ValidLeadStatus(leadStatus) == leadStatus \in LeadStatus

\* res.status(400).json(...): the handler returns before any storage call
BadRequest ==
  /\ response' = [status |-> 400]
  /\ UNCHANGED <<receivedEmails, sentEmails, emailThreads, activityLogs, proc, calls,
                 emailTemplates, outbox, tokenCache, now, tokenCall>>

\* the update of sent_emails where id = emailId
updateEmailLeadStatus(emailId, leadStatus) ==
  /\ sentEmails' = [i \in Indices(sentEmails) |->
                      IF i = emailId.row THEN [sentEmails[i] EXCEPT !.leadStatus = leadStatus]
                      ELSE sentEmails[i]]
  /\ UNCHANGED <<receivedEmails, emailThreads, proc, calls,
                 emailTemplates, outbox, tokenCache, now, tokenCall>>

\* the insert into activity_logs
createActivityLog(action, entityId) ==
  activityLogs' = Append(activityLogs, [action |-> action, entityId |-> entityId])

\* PATCH /api/email-threads/:threadId/status
PatchThreadStatus(threadId, leadStatus) ==
  IF ~ValidLeadStatus(leadStatus) THEN BadRequest
  ELSE /\ Len(activityLogs) < MaxRequests
       /\ updateThreadStatus(threadId, leadStatus)
       /\ createActivityLog("thread_status_updated", threadId)
       /\ response' = [status |-> 200]

\* PATCH /api/emails/:emailId/lead-status; emailId names a table and a row id
PatchEmailLeadStatus(emailId, leadStatus) ==
  IF ~ValidLeadStatus(leadStatus) THEN BadRequest
  ELSE /\ Len(activityLogs) < MaxRequests
       /\ IF emailId.table = "sent" /\ emailId.row \in Indices(sentEmails)
          THEN updateEmailLeadStatus(emailId, leadStatus)
          ELSE IF /\ emailId.table = "received"
                  /\ emailId.row \in Indices(receivedEmails)
                  /\ receivedEmails[emailId.row].threadId # 0
               THEN updateThreadStatus(receivedEmails[emailId.row].threadId, leadStatus)
               ELSE UNCHANGED <<receivedEmails, sentEmails, emailThreads, proc, calls,
                                emailTemplates, outbox, tokenCache, now, tokenCall>>
       /\ createActivityLog("lead_status_updated", emailId)
       /\ response' = [status |-> 200]

\* ------------------------------------------------- a sync call run alone
\* the three tables a sync call reads and writes
Store == [receivedEmails |-> receivedEmails, sentEmails |-> sentEmails,
          emailThreads |-> emailThreads]

First(ids) == IF ids = {} THEN 0 ELSE CHOOSE i \in ids : \A j \in ids : i <= j

\* syncReceivedEmail / syncSentEmail with no other statement in between: the
\* statements of the call, in order, on the tables of store
syncEmail(store, email) ==
  LET table == IF email.kind = "sent" THEN store.sentEmails ELSE store.receivedEmails
      existing == First(MatchingMessages(table, OrEmpty(email.messageId)))
      candidate == ThreadCandidate(email)
      found == First({t \in Indices(store.emailThreads) :
                        store.emailThreads[t].conversationId = candidate.conversationId})
      threadId == IF found = 0 THEN Len(store.emailThreads) + 1 ELSE found
      upserted == IF found = 0 THEN Append(store.emailThreads, NewThread(candidate))
                  ELSE [store.emailThreads EXCEPT ![found] = MergedThread(@, @, candidate)]
      written == IF existing # 0
                 THEN [table EXCEPT ![existing] =
                         IF email.kind = "sent" THEN UpdatedSentRow(@, email, threadId)
                         ELSE UpdatedReceivedRow(@, email, threadId)]
                 ELSE Append(table, IF email.kind = "sent" THEN SentRow(email, threadId)
                                    ELSE ReceivedRow(email, threadId))
      sent == IF email.kind = "sent" THEN written ELSE store.sentEmails
      received == IF email.kind = "sent" THEN store.receivedEmails ELSE written
      onThread(rows) == {i \in Indices(rows) : rows[i].threadId = threadId}
      recounted == [upserted EXCEPT
                      ![threadId].messageCount =
                         Cardinality(onThread(sent)) + Cardinality(onThread(received)),
                      ![threadId].unreadCount =
                         Cardinality({i \in onThread(received) : received[i].isRead = FALSE})]
  IN [receivedEmails |-> received, sentEmails |-> sent,
      emailThreads |-> IF existing # 0 THEN upserted ELSE recounted]

\* ------------------------------------------------------------ thread view
\* a where clause without the conversationId fallback
SelectThreadMessages_ByThreadIdOnly(table, threadId) ==
  {i \in Indices(table) : table[i].threadId = threadId}

\* the where clause of getThreadMessages: threadId, or the thread's
\* conversationId when the thread has a truthy one
SelectThreadMessages(table, threadId) ==
  IF threadId \in Indices(emailThreads) /\ emailThreads[threadId].conversationId \notin {NULL, ""}
  THEN {i \in Indices(table) :
          \/ table[i].threadId = threadId
          \/ table[i].conversationId = emailThreads[threadId].conversationId}
  ELSE {i \in Indices(table) : table[i].threadId = threadId}

\* a timestamp column that holds null
NoTime == 0

\* new Date(date || 0).getTime()
OccurredAt(message) == IF message.at = NoTime THEN 0 ELSE message.at

\* the orders in which a select may return the rows of ids
Orders(ids) ==
  {order \in [1..Cardinality(ids) -> ids] :
     \A i, j \in 1..Cardinality(ids) : order[i] = order[j] => i = j}

\* rows.map(m => ({ ...m, type }))
Tagged(table, type, order) ==
  [k \in 1..Len(order) |-> [type |-> type, id |-> order[k], at |-> table[order[k]].at]]

RECURSIVE SortByTime(_)
\* Array.prototype.sort with the comparator on the two timestamps (stable)
SortByTime(list) ==
  IF list = <<>> THEN <<>>
  ELSE LET init == SortByTime(SubSeq(list, 1, Len(list) - 1))
           last == list[Len(list)]
           before == {k \in 1..Len(init) : OccurredAt(init[k]) <= OccurredAt(last)}
           n == IF before = {} THEN 0 ELSE CHOOSE k \in before : \A l \in before : l <= k
       IN SubSeq(init, 1, n) \o <<last>> \o SubSeq(init, n + 1, Len(init))

\* the send route records the mail it sent: no provider ids, no thread
createSentEmail(at) ==
  /\ calls < MaxQueryCalls
  /\ calls' = calls + 1
  /\ sentEmails' = Append(sentEmails,
                          [messageId |-> NULL, conversationId |-> NULL, addr |-> "a@x.com",
                           leadStatus |-> "unassigned", at |-> at, threadId |-> 0])
  /\ UNCHANGED <<receivedEmails, emailThreads, activityLogs, response, proc,
                 emailTemplates, outbox, tokenCache, now, tokenCall>>

\* GET /api/email-threads/:threadId: the thread and getThreadMessages(threadId)
getThreadMessages(threadId) ==
  /\ IF threadId \notin Indices(emailThreads)
     THEN response' = [status |-> 404]
     ELSE \E sent \in Orders(SelectThreadMessages(sentEmails, threadId)),
             received \in Orders(SelectThreadMessages(receivedEmails, threadId)) :
            response' = [status |-> 200, threadId |-> threadId,
                         messages |-> SortByTime(Tagged(sentEmails, "sent", sent) \o
                                                 Tagged(receivedEmails, "received", received))]
  /\ UNCHANGED <<receivedEmails, sentEmails, emailThreads, activityLogs, proc, calls,
                 emailTemplates, outbox, tokenCache, now, tokenCall>>

\* ---------------------------------------------------------------- templates
\* a template text is a sequence of tokens: literal text (a list of words) and
\* placeholders {{key}}
Text(words) == [text |-> words]
Key(name) == [key |-> name]

SeqsUpTo(S, n) == UNION {[1..k -> S] : k \in 0..n}

\* the form of the Templates page: subject and body
TemplateInputs ==
  [subject : SeqsUpTo({Text(<<"Re">>), Key("company")}, 1),
   body : SeqsUpTo({Text(<<"Hi">>), Key("firstName"), Key("company")}, MaxTokens)]

\* rows of dataset_contacts; a null or empty column is the empty word list
Contacts ==
  [name : {<<>>, <<"Jane", "Doe">>}, email : {<<"j@x.com">>}, company : {<<>>, <<"Acme">>},
   customFields : {<<>>, <<[name |-> "company", value |-> <<"Initech">>]>>}]

\* [...text.matchAll(/\{\{(\w+)\}\}/g)].map(match => match[1])
MatchAll(tokens) ==
  LET hits == {k \in 1..Len(tokens) : "key" \in DOMAIN tokens[k]}
      nth[k \in 0..Len(tokens)] ==
        IF k = 0 THEN <<>>
        ELSE IF k \in hits THEN Append(nth[k - 1], tokens[k].key) ELSE nth[k - 1]
  IN nth[Len(tokens)]

\* createMutation: the variables sent along with the form
ExtractVariables(data) == Dedup(MatchAll(data.body))

\* POST /api/templates: insert the template, log it, answer with it
createEmailTemplate(data) ==
  /\ Len(emailTemplates) < MaxTemplates
  /\ emailTemplates' = Append(emailTemplates,
                              [subject |-> data.subject, body |-> data.body,
                               variables |-> ExtractVariables(data)])
  /\ activityLogs' = Append(activityLogs, [action |-> "template_created",
                                           entityId |-> Len(emailTemplates) + 1])
  /\ response' = [status |-> 200]
  /\ UNCHANGED <<receivedEmails, sentEmails, emailThreads, outbox, tokenCache, now,
                 tokenCall, proc, calls>>

\* the entries of `replacements`, in Object.entries order: the five fixed keys
\* (a custom field of the same name takes the value over), then the custom fields
Replacements(contact) ==
  LET custom == contact.customFields
      fixed == <<[name |-> "name", value |-> contact.name],
                 [name |-> "email", value |-> contact.email],
                 [name |-> "company", value |-> contact.company],
                 [name |-> "firstName",
                  value |-> IF contact.name = <<>> THEN <<>> ELSE <<Head(contact.name)>>],
                 [name |-> "lastName",
                  value |-> IF contact.name = <<>> THEN <<>> ELSE Tail(contact.name)]>>
      given(key) == {i \in 1..Len(custom) : custom[i].name = key}
  IN [k \in 1..Len(fixed) |->
        IF given(fixed[k].name) = {} THEN fixed[k]
        ELSE custom[CHOOSE i \in given(fixed[k].name) : \A j \in given(fixed[k].name) : j <= i]]
     \o SelectSeq(custom, LAMBDA entry : \A k \in 1..Len(fixed) : fixed[k].name # entry.name)

\* text.replace(new RegExp(`\{\{${key}\}\}`, "g"), String(value))
ReplaceAll(tokens, key, value) ==
  [k \in 1..Len(tokens) |-> IF tokens[k] = Key(key) THEN Text(value) ELSE tokens[k]]

RECURSIVE Render(_, _)
\* Object.entries(replacements).forEach(...) on one text
Render(tokens, entries) ==
  IF entries = <<>> THEN tokens
  ELSE Render(ReplaceAll(tokens, Head(entries).name, Head(entries).value), Tail(entries))

\* POST /api/emails/send-bulk for a dataset of one contact: render the stored
\* template, post the message, record the sent mail, log, answer
sendBulk(templateId, contact) ==
  /\ templateId \in Indices(emailTemplates)
  /\ Len(sentEmails) < MaxSends
  /\ outbox' = [templateId |-> templateId, contact |-> contact,
                subject |-> Render(emailTemplates[templateId].subject, Replacements(contact)),
                body |-> Render(emailTemplates[templateId].body, Replacements(contact))]
  /\ sentEmails' = Append(sentEmails,
                          [messageId |-> NULL, conversationId |-> NULL, addr |-> "j@x.com",
                           leadStatus |-> "unassigned", at |-> 1, threadId |-> 0])
  /\ activityLogs' = Append(activityLogs, [action |-> "bulk_email_sent",
                                           entityId |-> templateId])
  /\ response' = [status |-> 200]
  /\ UNCHANGED <<receivedEmails, emailThreads, emailTemplates, tokenCache, now,
                 tokenCall, proc, calls>>

\* ------------------------------------------------------------ specifications
\* the statements of one pass; a sync call is started with any input of Inputs
SyncStep(p, Inputs, maxCalls) ==
  \/ StartPass(p)
  \/ FetchFails(p)
  \/ InboxDone(p)
  \/ EndPass(p)
  \/ \E email \in Inputs : SelectExisting(p, email, maxCalls)
  \/ ThreadSelect(p)
  \/ ThreadUpdate(p)
  \/ ThreadInsert(p)
  \/ MessageUpdate(p)
  \/ MessageInsert(p)
  \/ SelectSentCount(p)
  \/ SelectReceivedCount(p)
  \/ UpdateMessageCount(p)
  \/ SelectUnreadCount(p)
  \/ UpdateUnreadCount(p)

\* the statements that are rejected by a unique constraint
RejectedStep(p) ==
  \/ ThreadInsertFails(p)
  \/ MessageInsertFails(p)

UserStep ==
  \E t \in Indices(emailThreads), s \in StatusInputs :
    updateThreadStatus(t, s) /\ UNCHANGED <<activityLogs, response>>

\* the timer pass and a manual pass overlap freely while a user sets lead statuses
Next ==
  \/ \E p \in Procs : SyncStep(p, ThreadInputs, MaxCalls)
  \/ \E p \in Procs : RejectedStep(p)
  \/ UserStep

Spec == Init /\ [][Next]_vars

\* the two passes alone, with room for a call that races two earlier ones
RaceNext ==
  \/ \E p \in Procs : SyncStep(p, RaceInputs, MaxRaceCalls)
  \/ \E p \in Procs : RejectedStep(p)

RaceSpec == Init /\ [][RaceNext]_vars

\* two passes over the same small inbox batch
BatchNext ==
  \/ \E p \in Procs : SyncStep(p, BatchInputs, MaxBatchCalls)
  \/ \E p \in Procs : RejectedStep(p)

BatchSpec == Init /\ [][BatchNext]_vars

\* a PATCH request with any status and any id, stored or one past the stored ones
PatchStep ==
  \/ \E t \in 1..(Len(emailThreads) + 1), s \in RequestStatuses : PatchThreadStatus(t, s)
  \/ \E table \in {"sent", "received"}, s \in RequestStatuses :
        \E row \in 1..(Len(Table(table)) + 1) :
          PatchEmailLeadStatus([table |-> table, row |-> row], s)

\* the manual pass and the PATCH requests of a user
ApiNext ==
  \/ SyncStep("manual", ApiInputs, MaxApiCalls)
  \/ PatchStep

ApiSpec == Init /\ [][ApiNext]_vars

\* one pass at a time over the inputs with absent and empty fields
EdgeNext == SyncStep("manual", EdgeInputs, MaxEdgeCalls)

EdgeSpec == Init /\ [][EdgeNext]_vars

\* the manual pass, mails sent from the application, and the thread view
QueryNext ==
  \/ SyncStep("manual", QueryInputs, MaxQueryCalls)
  \/ \E at \in QueryTimes : createSentEmail(at)
  \/ \E t \in 1..(Len(emailThreads) + 1) : getThreadMessages(t)

QuerySpec == Init /\ [][QueryNext]_vars

\* templates are created and sent to contacts
TemplateNext ==
  \/ \E data \in TemplateInputs : createEmailTemplate(data)
  \/ \E t \in Indices(emailTemplates), contact \in Contacts : sendBulk(t, contact)

TemplateSpec == Init /\ [][TemplateNext]_vars

\* the manual pass over batches in which a sent message may lack recipients
CountNext ==
  \/ SyncStep("manual", ThreadInputs, MaxCountCalls)
  \/ SkipSent("manual", MaxCountCalls)

CountSpec == Init /\ [][CountNext]_vars

\* the timer alone: the callbacks of two ticks
TimerNext ==
  \/ \E p \in Timers : SyncStep(p, BatchInputs, MaxTimerCalls)
  \/ \E p \in Timers : RejectedStep(p)

TimerSpec == Init /\ [][TimerNext]_vars

\* two passes whose messages bring different participants to one thread
MergeNext ==
  \/ \E p \in Procs : SyncStep(p, MergeInputs, MaxMergeCalls)
  \/ \E p \in Procs : RejectedStep(p)

MergeSpec == Init /\ [][MergeNext]_vars

\* one pass at a time over a conversation whose messages get read
OrderNext == SyncStep("manual", OrderInputs, MaxOrderCalls)

OrderSpec == Init /\ [][OrderNext]_vars

\* one pass at a time: the manual route, each of its statements in turn
SeqNext == SyncStep("manual", ReceivedInputs \cup SentInputs, MaxSeqCalls)

SeqSpec == Init /\ [][SeqNext]_vars

\* ------------------------------------------------------ the provider token
\* Times of this section count units of five minutes.
\* the safety margin, 5 * 60 * 1000 ms
Margin == 1
\* the lifetime used when the response carries no expires_in, 3600 s
DefaultExpiresIn == 12
\* data.access_token of a token response
Tokens == {"t1", "t2"}
\* data.expires_in of a token response; 0 stands for a missing value
ExpiresIns == {0, 1, 2, 3}

\* the cache test with the bound included
TokenValid_Inclusive(cache, at) == cache # NoTokenCache /\ cache.expiresAt >= at

\* tokenCache && tokenCache.expiresAt > Date.now()
TokenValid(cache, at) == cache # NoTokenCache /\ cache.expiresAt > at

\* getAccessToken up to its first await: the cached token, or the request
getAccessToken(c) ==
  /\ tokenCall[c].pc = "idle"
  /\ IF TokenValid(tokenCache, now)
     THEN tokenCall' = [tokenCall EXCEPT ![c] =
                          [NoTokenCall EXCEPT !.pc = "done",
                                              !.returned = tokenCache.accessToken,
                                              !.fromCache = TRUE]]
     ELSE tokenCall' = [tokenCall EXCEPT ![c] = [NoTokenCall EXCEPT !.pc = "fetching"]]
  /\ UNCHANGED <<receivedEmails, sentEmails, emailThreads, activityLogs, response,
                 emailTemplates, outbox, tokenCache, now, proc, calls>>

\* the environment lacks a credential: thrown before any request
CredentialsMissing(c) ==
  /\ tokenCall[c].pc = "idle"
  /\ ~TokenValid(tokenCache, now)
  /\ tokenCall' = [tokenCall EXCEPT ![c] =
                     [NoTokenCall EXCEPT !.pc = "done", !.error = TRUE]]
  /\ UNCHANGED <<receivedEmails, sentEmails, emailThreads, activityLogs, response,
                 emailTemplates, outbox, tokenCache, now, proc, calls>>

\* the response is ok and carries a token: cache it and return it
TokenFetched(c, accessToken, expires_in) ==
  /\ tokenCall[c].pc = "fetching"
  /\ LET expiresIn == IF expires_in = 0 THEN DefaultExpiresIn ELSE expires_in
     IN tokenCache' = [accessToken |-> accessToken,
                       expiresAt   |-> now + expiresIn - Margin]
  /\ tokenCall' = [tokenCall EXCEPT ![c] =
                     [NoTokenCall EXCEPT !.pc = "done", !.returned = accessToken,
                                         !.expiresIn = expires_in]]
  /\ UNCHANGED <<receivedEmails, sentEmails, emailThreads, activityLogs, response,
                 emailTemplates, outbox, now, proc, calls>>

\* the response is not ok, or carries no access_token: thrown, nothing cached
TokenFetchFails(c) ==
  /\ tokenCall[c].pc = "fetching"
  /\ tokenCall' = [tokenCall EXCEPT ![c] =
                     [NoTokenCall EXCEPT !.pc = "done", !.error = TRUE]]
  /\ UNCHANGED <<receivedEmails, sentEmails, emailThreads, activityLogs, response,
                 emailTemplates, outbox, tokenCache, now, proc, calls>>

\* the caller goes on with what getAccessToken gave it
getOutlookClient(c) ==
  /\ tokenCall[c].pc = "done"
  /\ tokenCall' = [tokenCall EXCEPT ![c] = NoTokenCall]
  /\ UNCHANGED <<receivedEmails, sentEmails, emailThreads, activityLogs, response,
                 emailTemplates, outbox, tokenCache, now, proc, calls>>

\* Date.now() moves on
Tick ==
  /\ now < MaxNow
  /\ now' = now + 1
  /\ UNCHANGED <<receivedEmails, sentEmails, emailThreads, activityLogs, response,
                 emailTemplates, outbox, tokenCache, tokenCall, proc, calls>>

TokenNext ==
  \/ \E c \in Callers : getAccessToken(c)
  \/ \E c \in Callers : CredentialsMissing(c)
  \/ \E c \in Callers, accessToken \in Tokens, expires_in \in ExpiresIns :
       TokenFetched(c, accessToken, expires_in)
  \/ \E c \in Callers : TokenFetchFails(c)
  \/ \E c \in Callers : getOutlookClient(c)
  \/ Tick

TokenSpec == Init /\ [][TokenNext]_vars

\* ==================================================================== claims
Quiescent == \A p \in Procs : ~InCall(p)

\* the stored row of the call's message already holds exactly the call's input
RepeatedInput(p) ==
  /\ InCall(p)
  /\ proc[p].existing # 0
  /\ proc[p].email.messageId \notin {NULL, ""}
  /\ LET row == Table(proc[p].email.kind)[proc[p].existing]
     IN row = (IF proc[p].email.kind = "sent" THEN SentRow(proc[p].email, row.threadId)
               ELSE ReceivedRow(proc[p].email, row.threadId))

Counters(threads) ==
  [t \in Indices(threads) |-> <<threads[t].messageCount, threads[t].unreadCount>>]

\* C1: a sync call whose input (non-empty providerMessageId) is the one already
\* stored, i.e. the second to N-th of a sequence of calls with the same unchanged
\* input, creates no row, leaves exactly one row with that providerMessageId in
\* its table, and leaves messageCount and unreadCount of every thread as the
\* first call left them.
C1_RepeatedSyncIsIdempotent ==
  [][\A p \in Procs :
       RepeatedInput(p) =>
         /\ Len(receivedEmails') = Len(receivedEmails)
         /\ Len(sentEmails') = Len(sentEmails)
         /\ Cardinality({i \in Indices(receivedEmails') :
                           /\ proc[p].email.kind = "received"
                           /\ receivedEmails'[i].messageId = proc[p].email.messageId}
                        \cup
                        {i \in Indices(sentEmails') :
                           /\ proc[p].email.kind = "sent"
                           /\ sentEmails'[i].messageId = proc[p].email.messageId}) = 1
         /\ Counters(emailThreads') = Counters(emailThreads)]_vars

\* a repeated call has merged its thread and is about to rewrite its unread row
C1_Witness ==
  \E p \in Procs :
    /\ RepeatedInput(p)
    /\ proc[p].pc = "message_write"
    /\ proc[p].email.kind = "received"
    /\ ~proc[p].email.isRead
    /\ emailThreads[proc[p].threadId].messageCount = 1
    /\ emailThreads[proc[p].threadId].unreadCount = 1

\* a message row belongs to thread t by threadId or by conversationId
OnThread(row, t) ==
  row.threadId = t \/ row.conversationId = emailThreads[t].conversationId

MessagesOnThread(t) ==
  Cardinality({i \in Indices(sentEmails) : OnThread(sentEmails[i], t)})
  + Cardinality({i \in Indices(receivedEmails) : OnThread(receivedEmails[i], t)})

\* C2: whenever no sync call is in progress, every thread's messageCount is the
\* number of sent plus received messages whose threadId or conversationId
\* matches the thread.
C2_MessageCountAccurate ==
  Quiescent => \A t \in Indices(emailThreads) :
                 emailThreads[t].messageCount = MessagesOnThread(t)

\* C3: whenever no sync call is in progress, every thread's unreadCount is the
\* number of received messages on the thread with isRead = false.
C3_UnreadCountAccurate ==
  Quiescent => \A t \in Indices(emailThreads) :
                 emailThreads[t].unreadCount = CountUnread(t)

\* C4: only updateThreadStatus changes the leadStatus of a stored thread: every
\* step of a sync call (of passes that run one after the other or overlap)
\* leaves the leadStatus of every thread as it was.
C4_SyncKeepsLeadStatus ==
  [][proc' # proc =>
       \A t \in Indices(emailThreads) :
         emailThreads'[t].leadStatus = emailThreads[t].leadStatus]_vars

\* a sync call read a thread that the user had set to hot and has merged into it
C4_Witness ==
  \E p \in Procs :
    /\ proc[p].pc = "message_write"
    /\ proc[p].found.id # 0
    /\ proc[p].found.row.leadStatus = "hot"
    /\ emailThreads[proc[p].threadId].leadStatus = "hot"
    /\ \E q \in Procs \ {p} : InCall(q)

\* C5: at most one thread row exists per conversationId, also when two passes
\* both looked the conversation up before either inserted its thread.
C5_OneThreadPerConversation ==
  \A t1, t2 \in Indices(emailThreads) :
    emailThreads[t1].conversationId = emailThreads[t2].conversationId => t1 = t2

\* a pass found no thread, and the other pass has inserted it in the meantime
C5_Witness ==
  \E p \in Procs :
    /\ proc[p].pc = "thread_write"
    /\ proc[p].found.id = 0
    /\ MatchingThreads(ThreadCandidate(proc[p].email).conversationId) # {}

StoredMessageIds(table) ==
  {table[i].messageId : i \in Indices(table)} \ {NULL, ""}

\* C6: no non-empty providerMessageId is carried by two message rows, sent and
\* received rows counted together.
C6_MessageIdUniqueAcrossStore ==
  /\ \A i, j \in Indices(receivedEmails) :
       (receivedEmails[i].messageId \notin {NULL, ""}
        /\ receivedEmails[i].messageId = receivedEmails[j].messageId) => i = j
  /\ \A i, j \in Indices(sentEmails) :
       (sentEmails[i].messageId \notin {NULL, ""}
        /\ sentEmails[i].messageId = sentEmails[j].messageId) => i = j
  /\ StoredMessageIds(receivedEmails) \cap StoredMessageIds(sentEmails) = {}

\* C7: under any interleaving of two passes a thread's lastMessageAt never
\* decreases from one state to the next.
C7_LastMessageAtMonotonic ==
  [][\A t \in Indices(emailThreads) :
       emailThreads'[t].lastMessageAt >= emailThreads[t].lastMessageAt]_vars

\* C8: a sync call that loses the insert race on a providerMessageId recovers
\* through the update path: no call ends with the rejected insert as an error
\* that ends its pass.
C8_DedupRaceRecovered ==
  \A p \in Procs : proc[p].error # "message_id"

\* C9: once both passes have finished without an error, every call of theirs
\* having inserted a new message, every thread's messageCount is the number of
\* messages on the thread and its unreadCount the number of unread received
\* messages on it.
C9_CountsConvergeAfterPasses ==
  (/\ \A p \in Procs : proc[p].pc = "idle" /\ proc[p].error = "none"
   /\ Len(receivedEmails) + Len(sentEmails) = calls) =>
    \A t \in Indices(emailThreads) :
      /\ emailThreads[t].messageCount = CountSent(t) + CountReceived(t)
      /\ emailThreads[t].unreadCount = CountUnread(t)

\* C10: createOrUpdateThread on an existing thread with lastMessageAt T1 and a
\* candidate timestamp T stores T when T > T1 and keeps T1 when T <= T1.
C10_MergeKeepsLaterTimestamp ==
  [][\A p \in Procs :
       (proc[p].pc = "thread_write" /\ proc[p].found.id # 0
        /\ proc'[p].pc = "message_write") =>
         LET t == proc[p].found.id
             T1 == emailThreads[t].lastMessageAt
             T == proc[p].email.at
         IN emailThreads'[t].lastMessageAt = (IF T > T1 THEN T ELSE T1)]_vars

\* a merge with an earlier candidate has kept the stored timestamp
C10_Witness ==
  \E p \in Procs :
    /\ proc[p].pc = "message_write"
    /\ proc[p].found.id # 0
    /\ proc[p].email.at < proc[p].found.row.lastMessageAt
    /\ emailThreads[proc[p].found.id].lastMessageAt = proc[p].found.row.lastMessageAt

Range(list) == {list[i] : i \in 1..Len(list)}

NoDuplicates(list) == \A i, j \in 1..Len(list) : list[i] = list[j] => i = j

\* C11: createOrUpdateThread on an existing thread sets participantEmails to the
\* union of the stored participants and the candidate's participant: every
\* stored address is kept, the candidate's address is present, and no address
\* appears twice.
C11_MergeUnitesParticipants ==
  [][\A p \in Procs :
       (proc[p].pc = "thread_write" /\ proc[p].found.id # 0
        /\ proc'[p].pc = "message_write") =>
         LET t == proc[p].found.id
         IN /\ Range(emailThreads'[t].participantEmails) =
                 Range(emailThreads[t].participantEmails) \cup {proc[p].email.addr}
            /\ NoDuplicates(emailThreads'[t].participantEmails)]_vars

\* a merge has added the candidate's address to a thread that held another one
C11_Witness ==
  \E p \in Procs :
    /\ proc[p].pc = "message_write"
    /\ proc[p].found.id # 0
    /\ proc[p].email.addr \notin Range(proc[p].found.row.participantEmails)
    /\ Range(emailThreads[proc[p].found.id].participantEmails) =
         Range(proc[p].found.row.participantEmails) \cup {proc[p].email.addr}
    /\ Len(emailThreads[proc[p].found.id].participantEmails) = 2

\* C12: a message whose processing fails is the only one skipped: the failing
\* call hands control back to the loop of its pass, which goes on with the
\* next message of the batch.
C12_FailedMessageOnlySkipped ==
  [][\A p \in Procs :
       (InCall(p) /\ proc'[p] # proc[p] /\ proc'[p].pc \in {"idle", "inbox", "sent"}) =>
         proc'[p].pc = (IF proc[p].email.kind = "sent" THEN "sent" ELSE "inbox")]_vars

\* C13: a failed fetch ends the pass before any sync call of it has run and
\* without touching a Message or Thread row; the pass is over (an error
\* response for the manual route), it does not fetch again.
C13_FetchFailureAbortsBeforeWrites ==
  [][\A p \in Procs :
       (proc'[p].error = "fetch" /\ proc'[p] # proc[p]) =>
         /\ proc[p].pc = "idle"
         /\ proc'[p].pc = "idle"
         /\ proc'[p].synced = 0
         /\ UNCHANGED <<receivedEmails, sentEmails, emailThreads>>]_vars

C13_Witness ==
  /\ proc["manual"].error = "fetch"
  /\ proc["timer"].pc = "idle"
  /\ Len(emailThreads) > 0

\* C14: the step at which a pass fails on a message leaves every Message and
\* Thread row as it was: what the pass wrote for its earlier messages stays.
C14_FailureKeepsEarlierWrites ==
  [][\A p \in Procs :
       (InCall(p) /\ proc'[p].pc = "idle") =>
         UNCHANGED <<receivedEmails, sentEmails, emailThreads>>]_vars

C14_Witness ==
  \E p \in Procs :
    /\ proc[p].error = "message_id"
    /\ proc[p].synced >= 1
    /\ \A q \in Procs \ {p} : proc[q].synced = 1 /\ proc[q].error = "none"
    /\ Len(receivedEmails) = 2

\* C15: a PATCH with a leadStatus outside hot/cold/dead/unassigned is answered
\* with 400 and changes no Thread row, no Message row and no activity log; no
\* such status is ever stored.
C15_InvalidStatusRejected ==
  [][/\ (response'.status = 400 /\ response' # response) =>
          UNCHANGED <<emailThreads, receivedEmails, sentEmails, activityLogs>>
     /\ \A t \in Indices(emailThreads') :
          emailThreads'[t].leadStatus \in {"hot", "cold", "dead", "unassigned"}
     /\ \A i \in Indices(sentEmails') :
          sentEmails'[i].leadStatus \in {"hot", "cold", "dead", "unassigned"}
     /\ (response'.status = 200 /\ response' # response) =>
          Len(activityLogs') = Len(activityLogs) + 1]_vars

C15_Witness ==
  /\ response.status = 400
  /\ Len(activityLogs) = 1
  /\ \E t \in Indices(emailThreads) : emailThreads[t].leadStatus = "hot"

\* the thread or message an activity-log entry names is stored
EntityStored(entry) ==
  IF entry.action = "thread_status_updated"
  THEN entry.entityId \in Indices(emailThreads)
  ELSE entry.entityId.row \in Indices(Table(entry.entityId.table))

\* C16: a PATCH whose id matches no thread / message has no side effect: it
\* is never answered with success and no activity-log entry names an id that
\* is not stored.
C16_UnknownIdHasNoSideEffect ==
  \A i \in Indices(activityLogs) : EntityStored(activityLogs[i])

\* C17: the insert branch of createOrUpdateThread stores leadStatus
\* unassigned whatever the candidate carries, a sent message's status included.
C17_NewThreadUnassigned ==
  [][\A p \in Procs :
       (proc[p].pc = "thread_write" /\ proc[p].found.id = 0
        /\ proc'[p].pc = "message_write") =>
         emailThreads'[Len(emailThreads')].leadStatus = "unassigned"]_vars

\* C18: the existence check of a call whose messageId is the empty string
\* finds no stored Message, so the call takes the insert path.
C18_EmptyMessageIdNeverMatches ==
  [][\A p \in Procs :
       (proc[p].pc \in {"inbox", "sent"} /\ proc'[p].pc = "thread_select"
        /\ proc'[p].email.messageId = "") =>
         proc'[p].existing = 0]_vars

\* the stored messages the thread view of t has to show
ThreadView(t) ==
  {[type |-> "sent", id |-> i] :
     i \in {i \in Indices(sentEmails) :
              \/ sentEmails[i].threadId = t
              \/ /\ sentEmails[i].conversationId # NULL
                 /\ sentEmails[i].conversationId = emailThreads[t].conversationId}}
  \cup
  {[type |-> "received", id |-> i] :
     i \in {i \in Indices(receivedEmails) :
              \/ receivedEmails[i].threadId = t
              \/ /\ receivedEmails[i].conversationId # NULL
                 /\ receivedEmails[i].conversationId = emailThreads[t].conversationId}}

\* C19: getThreadMessages(t) answers exactly the sent and received messages
\* whose threadId is t or whose conversationId is the thread's, each once, in
\* non-decreasing order of sentAt / receivedAt (a missing one counting as 0).
C19_ThreadMessagesSelectedAndOrdered ==
  [][(response' # response /\ response'.status = 200 /\ "messages" \in DOMAIN response') =>
       LET t == response'.threadId
           messages == response'.messages
           key(m) == LET at == Table(m.type)[m.id].at IN IF at = 0 THEN 0 ELSE at
       IN /\ {[type |-> messages[k].type, id |-> messages[k].id] : k \in 1..Len(messages)}
               = ThreadView(t)
          /\ Len(messages) = Cardinality(ThreadView(t))
          /\ \A k, l \in 1..Len(messages) : k < l => key(messages[k]) <= key(messages[l])]_vars

\* the view holds a received message before a sent one that was selected
\* first, and a message that is on another thread by its threadId
C19_Witness ==
  /\ response.status = 200
  /\ "messages" \in DOMAIN response
  /\ Len(response.messages) = 2
  /\ response.messages[1].type = "received"
  /\ response.messages[2].type = "sent"
  /\ response.messages[1].at < response.messages[2].at
  /\ \E k \in 1..2 :
       Table(response.messages[k].type)[response.messages[k].id].threadId # response.threadId

\* the messages of a table stored with threadId t
StoredOn(table, t) == {i \in Indices(table) : table[i].threadId = t}

\* C20: the write of refreshThreadMessageCount(t) leaves messageCount at the
\* number of sent plus received Messages stored with threadId t, the write of
\* refreshThreadUnreadCount(t) leaves unreadCount at the number of unread
\* received ones; the written value is the one a repeated call would write.
C20_RefreshRecountsFromMessages ==
  [][/\ \A p \in Procs :
          (proc[p].pc = "count_write" /\ proc'[p].pc = "unread_select") =>
            LET t == proc[p].threadId
            IN /\ emailThreads'[t].messageCount =
                    Cardinality(StoredOn(sentEmails, t)) +
                    Cardinality(StoredOn(receivedEmails, t))
               /\ emailThreads'[t].messageCount =
                    Cardinality(StoredOn(sentEmails', t)) +
                    Cardinality(StoredOn(receivedEmails', t))
               /\ \A u \in Indices(emailThreads) \ {t} : emailThreads'[u] = emailThreads[u]
     /\ \A p \in Procs :
          (proc[p].pc = "unread_write" /\ proc'[p].pc \in {"inbox", "sent"}) =>
            LET t == proc[p].threadId
                unread == {i \in StoredOn(receivedEmails', t) : ~receivedEmails'[i].isRead}
            IN /\ emailThreads'[t].unreadCount = Cardinality(unread)
               /\ receivedEmails' = receivedEmails
               /\ \A u \in Indices(emailThreads) \ {t} : emailThreads'[u] = emailThreads[u]]_vars

\* a pass has just recounted a thread that holds a sent message and an
\* unread received one
C20_Witness ==
  \E t \in Indices(emailThreads) :
    /\ proc["manual"].pc = "inbox"
    /\ proc["manual"].synced = 1
    /\ Cardinality(StoredOn(sentEmails, t)) = 1
    /\ Cardinality(StoredOn(receivedEmails, t)) = 1
    /\ emailThreads[t].messageCount = 2
    /\ emailThreads[t].unreadCount = 1

\* the contact has data for the placeholder key
HasData(contact, key) ==
  \/ key = "email"
  \/ key \in {"name", "firstName"} /\ contact.name # <<>>
  \/ key = "lastName" /\ Len(contact.name) > 1
  \/ key = "company" /\ contact.company # <<>>
  \/ \E i \in 1..Len(contact.customFields) :
       contact.customFields[i].name = key /\ contact.customFields[i].value # <<>>

\* the placeholders of a text for which the contact has no data are left as
\* they are, the others are replaced
RenderedFor(contact, template, rendered) ==
  /\ Len(rendered) = Len(template)
  /\ \A k \in 1..Len(template) :
       IF "key" \in DOMAIN template[k]
       THEN IF HasData(contact, template[k].key)
            THEN "text" \in DOMAIN rendered[k] /\ rendered[k].text # <<>>
            ELSE rendered[k] = template[k]
       ELSE rendered[k] = template[k]

\* C21: the message sent for a contact has every {{key}} the contact has data
\* for replaced and every other {{key}} left as the literal {{key}}.
C21_UnresolvedKeysStayLiteral ==
  outbox # NoMessage =>
    /\ RenderedFor(outbox.contact, emailTemplates[outbox.templateId].subject, outbox.subject)
    /\ RenderedFor(outbox.contact, emailTemplates[outbox.templateId].body, outbox.body)

\* the placeholder names of a text, each once, in order of first occurrence
FirstOccurrences(tokens) ==
  LET names == {tokens[k].key : k \in {k \in 1..Len(tokens) : "key" \in DOMAIN tokens[k]}}
      first(name) == CHOOSE k \in 1..Len(tokens) :
                       /\ tokens[k] = [key |-> name]
                       /\ \A l \in 1..(k - 1) : tokens[l] # [key |-> name]
  IN {order \in [1..Cardinality(names) -> names] :
        \A i, j \in 1..Cardinality(names) : i < j => first(order[i]) < first(order[j])}

\* C28: the variables stored with a template are the identifiers of the
\* {{x}} of subject and body, each once, in order of first occurrence.
C28_VariablesFromSubjectAndBody ==
  \A t \in Indices(emailTemplates) :
    emailTemplates[t].variables \in
      FirstOccurrences(emailTemplates[t].subject \o emailTemplates[t].body)

\* C22: a PATCH of a message's lead status (the request that logs
\* lead_status_updated) changes at most the leadStatus of the sent Message it
\* names and never a Thread.
C22_MessageStatusLeavesThreads ==
  [][(/\ Len(activityLogs') = Len(activityLogs) + 1
      /\ activityLogs'[Len(activityLogs')].action = "lead_status_updated") =>
       LET emailId == activityLogs'[Len(activityLogs')].entityId
       IN /\ emailThreads' = emailThreads
          /\ receivedEmails' = receivedEmails
          /\ \A i \in Indices(sentEmails) :
               (emailId.table = "sent" /\ emailId.row = i) \/ sentEmails'[i] = sentEmails[i]]_vars

\* C23: the counts a successful POST /sync answers are the numbers of inbox
\* and sent-folder messages the pass handed to syncReceivedEmail and
\* syncSentEmail.
C23_CountsAreMessagesProcessed ==
  (proc["manual"].pc = "idle" /\ proc["manual"].error = "none") =>
    /\ SyncResponse("manual").inboxCount = proc["manual"].inboxLength
    /\ SyncResponse("manual").sentCount = proc["manual"].synced - proc["manual"].inboxLength

\* C24: no two timer-driven passes run at the same time: the pass of a tick
\* has ended before the pass of a later tick starts.
C24_TimerPassesDoNotOverlap ==
  \A p, q \in Timers : (proc[p].pc # "idle" /\ proc[q].pc # "idle") => p = q

\* C25: under any interleaving of sync passes no step removes an address from
\* a thread's participantEmails, so after two concurrent merges the thread
\* holds both new participants and every earlier one.
C25_ParticipantsNeverLost ==
  [][\A t \in Indices(emailThreads) :
       Range(emailThreads[t].participantEmails) \subseteq
         Range(emailThreads'[t].participantEmails)]_vars

\* what a store holds, row ids and thread ids left aside: the Message rows
\* with the conversation of their thread, and each thread's merged fields
Outcome(store) ==
  LET conversation(row) == IF row.threadId \in Indices(store.emailThreads)
                           THEN store.emailThreads[row.threadId].conversationId ELSE NULL
      message(kind, row) ==
        [kind |-> kind, messageId |-> row.messageId, conversationId |-> row.conversationId,
         addr |-> row.addr, at |-> row.at, thread |-> conversation(row),
         isRead |-> IF kind = "received" THEN row.isRead ELSE FALSE]
  IN [messages |->
        {message("received", store.receivedEmails[i]) : i \in Indices(store.receivedEmails)}
        \cup {message("sent", store.sentEmails[i]) : i \in Indices(store.sentEmails)},
      threads |->
        {[conversationId |-> store.emailThreads[t].conversationId,
          lastMessageAt |-> store.emailThreads[t].lastMessageAt,
          participantEmails |-> Range(store.emailThreads[t].participantEmails),
          messageCount |-> store.emailThreads[t].messageCount,
          unreadCount |-> store.emailThreads[t].unreadCount] :
           t \in Indices(store.emailThreads)}]

\* C26: two distinct messages synced one after the other into the store leave
\* the same Message rows and the same lastMessageAt, participantEmails,
\* messageCount and unreadCount on every thread, whichever goes first.
C26_BatchOrderIrrelevant ==
  Quiescent =>
    \A x, y \in OrderInputs :
      (x.kind # y.kind \/ x.messageId # y.messageId) =>
        Outcome(syncEmail(syncEmail(Store, x), y)) = Outcome(syncEmail(syncEmail(Store, y), x))

RECURSIVE SyncedStores(_, _)
\* the stores that n calls of syncEmail build from the empty store
SyncedStores(n, Inputs) ==
  IF n = 0 THEN {[receivedEmails |-> <<>>, sentEmails |-> <<>>, emailThreads |-> <<>>]}
  ELSE {syncEmail(store, email) : store \in SyncedStores(n - 1, Inputs), email \in Inputs}

\* the calls of a pass that runs alone leave the tables as syncEmail computes them
SyncEmailAgrees == Quiescent => Store \in SyncedStores(calls, OrderInputs)

SyncEmailAgreesOnEdges == Quiescent => Store \in SyncedStores(calls, EdgeInputs)

\* C27: a call that finds its message stored writes that row alone, in
\* place, with the threadId of the thread resolved for the call's
\* conversation, and no step of the call changes the messageCount or the
\* unreadCount of a stored thread; a thread it creates starts at 0 and 0.
C27_ResyncUpdatesInPlace ==
  [][\A p \in Procs :
       (InCall(p) /\ proc[p].existing # 0 /\ proc'[p] # proc[p]) =>
         /\ Len(receivedEmails') = Len(receivedEmails)
         /\ Len(sentEmails') = Len(sentEmails)
         /\ \A t \in Indices(emailThreads) :
              /\ emailThreads'[t].messageCount = emailThreads[t].messageCount
              /\ emailThreads'[t].unreadCount = emailThreads[t].unreadCount
         /\ \A t \in Indices(emailThreads') \ Indices(emailThreads) :
              emailThreads'[t].messageCount = 0 /\ emailThreads'[t].unreadCount = 0
         /\ proc[p].pc = "message_write" =>
              LET table == Table(proc[p].email.kind)
                  written == IF proc[p].email.kind = "sent" THEN sentEmails'
                             ELSE receivedEmails'
                  e == proc[p].existing
              IN /\ \A i \in Indices(table) \ {e} : written[i] = table[i]
                 /\ written[e].threadId \in Indices(emailThreads)
                 /\ emailThreads[written[e].threadId].conversationId =
                      (IF proc[p].email.conversationId = NULL THEN ""
                       ELSE proc[p].email.conversationId)
                 /\ written[e].messageId = table[e].messageId
                 /\ written[e].at = proc[p].email.at
                 /\ ~InCall(p)']_vars

\* C29: the step of a sync call that writes its Message leaves the row with
\* the threadId of a stored Thread whose conversationId is the call's
\* conversationId, or the empty string when the call has none, and that
\* Thread is then the only one with that conversationId; no step removes a
\* Thread, changes a Thread's conversationId or moves another Message, so
\* every stored Message stays on the thread of the conversationId it was
\* last synced with.
C29_MessageOnThreadOfItsConversation ==
  [][/\ Len(emailThreads') >= Len(emailThreads)
     /\ \A t \in Indices(emailThreads) :
          emailThreads'[t].conversationId = emailThreads[t].conversationId
     /\ \A p \in Procs :
          (proc[p].pc = "message_write" /\ proc'[p] # proc[p] /\ proc'[p].error = "none") =>
            LET email == proc[p].email
                table == Table(email.kind)
                written == IF email.kind = "sent" THEN sentEmails' ELSE receivedEmails'
                other == IF email.kind = "sent" THEN receivedEmails' ELSE sentEmails'
                e == IF proc[p].existing # 0 THEN proc[p].existing ELSE Len(table) + 1
                conversationId == IF email.conversationId = NULL THEN ""
                                  ELSE email.conversationId
            IN /\ e \in Indices(written)
               /\ written[e].threadId \in Indices(emailThreads')
               /\ emailThreads'[written[e].threadId].conversationId = conversationId
               /\ \A t \in Indices(emailThreads') :
                    emailThreads'[t].conversationId = conversationId =>
                      t = written[e].threadId
               /\ \A i \in Indices(table) \ {e} : written[i] = table[i]
               /\ other = Table(IF email.kind = "sent" THEN "received" ELSE "sent")
     /\ (\A p \in Procs : proc[p].pc # "message_write" \/ proc'[p] = proc[p]) =>
          /\ \A i \in Indices(receivedEmails) :
               receivedEmails'[i].threadId = receivedEmails[i].threadId
          /\ \A i \in Indices(sentEmails) :
               sentEmails'[i].threadId = sentEmails[i].threadId]_vars

\* two messages synced without a conversationId sit on the one thread whose
\* conversationId is the empty string
C29_Witness ==
  /\ Quiescent
  /\ calls = 2
  /\ Len(emailThreads) = 1
  /\ emailThreads[1].conversationId = ""
  /\ Len(receivedEmails) + Len(sentEmails) = 2
  /\ \A i \in Indices(receivedEmails) : receivedEmails[i].threadId = 1
  /\ \A i \in Indices(sentEmails) : sentEmails[i].threadId = 1

\* C30: a call of getAccessToken returns the cached token, and leaves the
\* cache alone, exactly when a token is cached and the current time is
\* strictly before its expiresAt; otherwise it requests a new token. A
\* request that succeeds replaces the cache by the new token with
\* expiresAt = the time of caching + expires_in - 5 minutes and returns that
\* token; a call that fails returns no token and leaves the cache as it
\* was. Nothing else changes the cache. (In units of five minutes the
\* margin is 1 and the lifetime of a response without expires_in is 12.)
C30_TokenCachedUntilExpiresAt ==
  [][/\ \A c \in Callers :
          tokenCall'[c] # tokenCall[c] =>
            /\ tokenCall[c].pc = "idle" =>
                 IF tokenCache # NoTokenCache /\ now < tokenCache.expiresAt
                 THEN /\ tokenCall'[c].pc = "done"
                      /\ tokenCall'[c].fromCache
                      /\ ~tokenCall'[c].error
                      /\ tokenCall'[c].returned = tokenCache.accessToken
                      /\ tokenCache' = tokenCache
                 ELSE /\ ~tokenCall'[c].fromCache
                      /\ tokenCall'[c].returned = NULL
                      /\ tokenCall'[c].pc = "fetching" \/ tokenCall'[c].error
                      /\ tokenCache' = tokenCache
            /\ (tokenCall[c].pc = "fetching" /\ ~tokenCall'[c].error) =>
                 /\ tokenCall'[c].returned \in Tokens
                 /\ tokenCache'.accessToken = tokenCall'[c].returned
                 /\ tokenCall'[c].expiresIn # 0 =>
                      tokenCache'.expiresAt = now + tokenCall'[c].expiresIn - 1
                 /\ tokenCall'[c].expiresIn = 0 =>
                      tokenCache'.expiresAt = now + 12 - 1
            /\ tokenCall'[c].error =>
                 /\ tokenCall'[c].returned = NULL
                 /\ tokenCache' = tokenCache
     /\ tokenCall' = tokenCall => tokenCache' = tokenCache]_vars

\* a call answered from the cache one unit before expiresAt, the token having
\* been cached at an earlier time, while the other caller's request failed
C30_Witness ==
  /\ tokenCall["inbox"].pc = "done"
  /\ tokenCall["inbox"].fromCache
  /\ tokenCall["inbox"].returned = tokenCache.accessToken
  /\ now > 0
  /\ tokenCache.expiresAt = now + 1
  /\ tokenCall["sentitems"].error

====
